---- MODULE Spec2Model ----
(***************************************************************************)
(* Deployment orchestration engine of the web-hosting application:         *)
(* app/views.py (request handlers), app/utils.py (pipeline, supervisor),   *)
(* app/models.py (deployment record), app/forms.py (upload form).          *)
(*                                                                         *)
(* One owner (request.user) is modelled; every path below is relative to   *)
(* WEBSITES_ROOT and the "<username>_" prefix of folder and marker names   *)
(* is the same for all of them, so a folder is named by its identifier.    *)
(***************************************************************************)
EXTENDS Integers, Sequences, FiniteSets, TLC

VARIABLES
    records,    \* DjangoProject rows: slot -> row or NoRec
    files,      \* upload artifacts that exist in storage (file ids)
    uploads,    \* number of artifacts stored so far (ids are never reused)
    fs,         \* working directories: identifier -> directory or NoDir
    procs,      \* spawned server processes: pid -> [port, alive]
    extBound,   \* ports bound by listeners that are not ours
    cwd,        \* the orchestrator process's working directory
    upd,        \* the update request in progress (its position and locals)
    last,       \* what the last completed operation did and returned
    nm,         \* project-name derivation: form input and derived identifiers
    conf,       \* settings rewriting: the settings file and the last result
    arch,       \* upload validation: the archive and the verdict
    deps,       \* dependency installation: the tree and the installer calls
    mig,        \* migration runs in flight: run -> position and locals
    race        \* pipeline runs in flight: run -> position, port and child

\* The state of the request handlers and of the supervisor
sysVars == <<records, files, uploads, fs, procs, extBound, cwd, upd, last>>

\* The state of the step-level specifications
stepVars == <<nm, conf, arch, deps, mig, race>>

vars == <<sysVars, stepVars>>

(***************************************************************************)
(* Characters and project names.  A name is a sequence of one-character    *)
(* strings.                                                                *)
(***************************************************************************)
Letters == {"a", "b", "c", "e", "j", "o", "p", "r", "s", "t", "u"}
Digits == {"0", "7", "f"}
Blank == " "
Hyphen == "-"
Underscore == "_"

\* str.isalnum() of one character
IsAlnum(c) == c \in Letters \cup Digits

\* "".join(c if c.isalnum() else "_" for c in project_name)
SafeNameRaw(name) ==
    [i \in 1..Len(name) |-> IF IsAlnum(name[i]) THEN name[i] ELSE Underscore]

RECURSIVE LStrip(_, _)
LStrip(s, c) == IF s # <<>> /\ Head(s) = c THEN LStrip(Tail(s), c) ELSE s

RECURSIVE RStrip(_, _)
RStrip(s, c) ==
    IF s # <<>> /\ s[Len(s)] = c THEN RStrip(SubSeq(s, 1, Len(s) - 1), c) ELSE s

\* str.strip() / str.strip('_')
Strip(s, c) == RStrip(LStrip(s, c), c)

\* re.sub(r'_{2,}', '_', s)
RECURSIVE CollapseUnderscores(_)
CollapseUnderscores(s) ==
    IF Len(s) < 2 THEN s
    ELSE IF s[1] = Underscore /\ s[2] = Underscore
         THEN CollapseUnderscores(Tail(s))
         ELSE <<Head(s)>> \o CollapseUnderscores(Tail(s))

ProjectSuffix == <<"_", "p", "r", "o", "j", "e", "c", "t">>
UserProjectPrefix ==
    <<"u", "s", "e", "r", "_", "p", "r", "o", "j", "e", "c", "t", "_">>

\* uuid.uuid4().hex[:6]
UuidHex == {<<"0", "0", "7", "f", "a", "b">>, <<"f", "f", "0", "7", "c", "e">>}

\* forms.CharField(strip=True, required=True) on project_name: the cleaned
\* value, or <<>> when the field is rejected as empty.
FormCleanName(input) == Strip(input, Blank)

FormAccepts(input) == FormCleanName(input) # <<>>

\* Variant: a short cleaned name is used as it is, without padding.
SafeNameUnpadded(s, uid) == s

\* deploy_django_view: pad a cleaned name shorter than 3 characters
SafeNameCleanedShort(s, uid) ==
    LET s1 == IF Len(s) < 3 THEN s \o ProjectSuffix ELSE s
    IN  IF Len(s1) < 3 THEN UserProjectPrefix \o uid ELSE s1

\* deploy_django_view: the identifier the working directory is named by
SafeNameView(project_name, uid) ==
    LET cleaned == Strip(project_name, Blank)
        mapped == SafeNameRaw(cleaned)
        collapsed == CollapseUnderscores(mapped)
        stripped == Strip(collapsed, Underscore)
    IN  SafeNameCleanedShort(stripped, uid)

\* deploy_django_project: project_folder = MEDIA_ROOT/<username>_<safe_name>
ProjectFolderOf(project_name) == SafeNameRaw(project_name)

(***************************************************************************)
(* Bounds of the model.                                                    *)
(***************************************************************************)
MaxUploads == 2     \* archives uploaded (deploys and updates) in one run
MaxLaunches == 2    \* servers launched in one run of the supervisor
MaxNameLen == 4     \* length of a typed project name (name derivation)

\* A row is created by an upload, so there are at most MaxUploads rows.
Slots == 1..MaxUploads

(***************************************************************************)
(* Program constants.                                                      *)
(***************************************************************************)
BasePort == 8000
ProbeCount == 100
ProbeRange == BasePort..(BasePort + ProbeCount - 1)

\* What an uploaded archive turns out to be when the pipeline meets it.
\*   good       extracts, has manage.py and a locatable settings file
\*   nosettings extracts, has manage.py, no settings file can be located
\*   notdjango  extracts, has no file named exactly manage.py
\*   badzip     zipfile.ZipFile raises on it
DeployKinds == {"good", "nosettings", "notdjango"}
UpdateKinds == DeployKinds \cup {"badzip"}

\* Outcome of a shelled-out docker-compose command (subprocess.run).
CmdOutcomes == {"ok", "nonzero", "timeout", "oserror"}

\* Project names typed into the deploy form in the state machine.
DeployNames ==
    { <<"a", "p", "p">>,            \* identifier app both ways
      <<"a", "-", "-", "b">> }      \* a_b at deploy time, a__b afterwards

\* Every working-directory identifier any request can derive.
FolderIds ==
    UNION { {SafeNameRaw(n), SafeNameView(n, u)} : n \in DeployNames, u \in UuidHex }

Home == <<"~">>     \* the directory the orchestrator was started in
Gone == <<"?">>     \* a working directory that has been removed under us

(***************************************************************************)
(* Values.                                                                 *)
(***************************************************************************)
NoMarker == [state |-> "absent", val |-> 0]
PidMarker(pid) == [state |-> "ok", val |-> pid]
PortMarker(port) == [state |-> "ok", val |-> port]

NoDir == [exists |-> FALSE, code |-> 0, pid |-> NoMarker, port |-> NoMarker]
EmptyDir == [exists |-> TRUE, code |-> 0, pid |-> NoMarker, port |-> NoMarker]

NoRec ==
    [present |-> FALSE, name |-> <<>>, folder |-> <<>>, status |-> "pending",
     active |-> FALSE, domain |-> 0, file |-> 0]

\* The request in progress, a deploy (pc created, deploying) or an update
\* (pc stop, redeploy, finish): its position (pc), the row, the backup directory as
\* it is on disk now, the snapshot as it was taken, the artifact the row had
\* before, what the new artifact is, the row's status when the request came
\* in, and the pipeline's result.
Idle ==
    [pc |-> "idle", slot |-> 0, backup |-> NoDir, snapshot |-> NoDir,
     oldFile |-> 0, kind |-> "none", status0 |-> "none", ok |-> FALSE]

\* What the last completed operation was and what it observed: the row it
\* worked on, its result, the port the allocator returned and whether that
\* port was free and the probe range full at the probe, whether a server
\* process was spawned, and the outcome of the docker-compose command; of a
\* pipeline run also the steps it started, whether the settings were
\* rewritten, what the installation returned, the address, the error
\* message of the result, the message of an exception the run raised and
\* the output the spawned child had written when it was polled, and what
\* the archive was; of a toggle its direction.
LastNone ==
    [op |-> "none", slot |-> 0, ok |-> FALSE, port |-> 0, portFree |-> FALSE,
     rangeFull |-> FALSE, spawned |-> FALSE, cmd |-> "none",
     snapshot |-> NoDir, oldFile |-> 0, status0 |-> "none",
     id |-> <<>>, running |-> FALSE, raised |-> FALSE, afterStop |-> FALSE,
     steps |-> <<>>, configured |-> FALSE, installed |-> FALSE, address |-> 0,
     error |-> "", cause |-> "", activate |-> FALSE, log |-> "",
     kind |-> "none"]

\* A project name typed into the deploy form: whether the form has been
\* submitted, whether it was accepted, the identifier the view derived, the
\* folder identifier the pipeline derived from that, and the identifier
\* every later request derives from the stored name.
NoName ==
    [input |-> <<>>, submitted |-> FALSE, accepted |-> FALSE, safe |-> <<>>,
     folder |-> <<>>, later |-> <<>>]

\* Upload validation: the uploaded file (its name ends in .zip, it is over
\* the size limit, it is a readable zip, its member paths), whether the
\* validator has run, and its verdict.
NoArch ==
    [zipname |-> TRUE, oversize |-> FALSE, wellformed |-> TRUE, entries |-> {},
     checked |-> FALSE, verdict |-> "none"]

\* Dependency installation: the manifest found in the tree (its lines, or
\* none), whether it can be read, the root modules the sources import, and
\* what the resolver did: the essential packages it installed, the bulk
\* attempt (made or not, its lines, its outcome), the lines installed one
\* by one, the individual installs that failed, the packages installed
\* from import analysis, and the value returned.
NoDeps ==
    [manifest |-> <<>>, hasManifest |-> FALSE, readable |-> TRUE, imports |-> {},
     ran |-> FALSE, essentials |-> {}, bulkTried |-> FALSE, bulk |-> <<>>,
     bulkOutcome |-> "none", singles |-> <<>>, failed |-> {}, analysed |-> {},
     result |-> FALSE]

\* Migration runs in flight: none.
NoMig == <<>>

\* Pipeline runs in flight: none.
NoRace == <<>>

\* Settings rewriting: whether a settings.py can be located, its lines, the
\* lines before the last rewrite and before the first, how many rewrites
\* have run, and what the last one returned.
NoConf ==
    [exists |-> FALSE, content |-> <<>>, prev |-> <<>>, original |-> <<>>,
     passes |-> 0, ok |-> FALSE]

(***************************************************************************)
(* Filesystem and process helpers.                                         *)
(***************************************************************************)
\* os.path.exists(project_folder)
DirExists(fsv, id) == fsv[id].exists

\* os.path.exists(pid_file): <folder>/<username>_<id>.pid
PidFileExists(fsv, id) == fsv[id].exists /\ fsv[id].pid.state # "absent"

\* shutil.rmtree(project_folder, ignore_errors=True)
Rmtree(fsv, id) == [fsv EXCEPT ![id] = NoDir]

\* The orchestrator's working directory after a directory was removed:
\* a process whose working directory is removed is left in no directory.
CwdAfterRmtree(c, id) == IF c = id THEN Gone ELSE c

\* os.getcwd() raises FileNotFoundError when the directory is gone
GetcwdRaises(c) == c = Gone

ProcAlive(pr, pid) == pid \in 1..Len(pr) /\ pr[pid].alive

\* Ports some listener holds: ours (live servers that bound) and foreign.
BoundPorts(pr, ext) == ext \cup {pr[p].port : p \in {q \in 1..Len(pr) : pr[q].alive}}

(***************************************************************************)
(* Port Allocator: utils.find_available_port                               *)
(***************************************************************************)
\* for port in range(start_port, start_port + 100): bind, return on success.
\* The loop returns at the first port whose bind succeeds: the lowest port
\* of the range that no listener holds.
ProbeFrom(port, stop, bound) ==
    LET free == {p \in port..(stop - 1) : p \notin bound}
    IN  IF free = {} THEN [found |-> FALSE, port |-> 0]
        ELSE [found |-> TRUE,
              port |-> CHOOSE p \in free : \A q \in free : p <= q]

find_available_port(start_port, bound) ==
    LET r == ProbeFrom(start_port, start_port + ProbeCount, bound)
    IN  IF r.found THEN r.port ELSE start_port

(***************************************************************************)
(* Process Supervisor: utils.stop_django_project,                          *)
(* utils.check_django_deployment_status, utils.cleanup_django_deployment   *)
(***************************************************************************)
\* The body of stop's try block.  raised: an exception left the block
\* (open() on an unreadable file, int() on malformed text, os.kill on a
\* process that is gone); the marker is removed only after os.kill returned.
StopTry(id, fsv, pr) ==
    IF ~PidFileExists(fsv, id)
    THEN [fs |-> fsv, procs |-> pr, raised |-> FALSE, signalled |-> FALSE]
    ELSE IF fsv[id].pid.state # "ok"
    THEN [fs |-> fsv, procs |-> pr, raised |-> TRUE, signalled |-> FALSE]
    ELSE LET pid == fsv[id].pid.val
         IN  IF ~ProcAlive(pr, pid)
             THEN [fs |-> fsv, procs |-> pr, raised |-> TRUE, signalled |-> FALSE]
             ELSE [fs |-> [fsv EXCEPT ![id].pid = NoMarker],
                   procs |-> [pr EXCEPT ![pid].alive = FALSE],
                   raised |-> FALSE, signalled |-> TRUE]

\* Variant: a stop that looks for the marker where the launch never wrote it.
StopWrongMarker(id, fsv, pr) ==
    [fs |-> fsv, procs |-> pr, raised |-> FALSE, signalled |-> FALSE]

\* except Exception: logger.warning(...)
stop_django_project(id, fsv, pr) ==
    [StopTry(id, fsv, pr) EXCEPT !.raised = FALSE]

\* The body of the status check's try block.
StatusTry(id, fsv, pr) ==
    IF ~PidFileExists(fsv, id)
    THEN [status |-> FALSE, raised |-> FALSE, error |-> FALSE]
    ELSE IF fsv[id].pid.state # "ok"
    THEN [status |-> FALSE, raised |-> TRUE, error |-> FALSE]
    ELSE [status |-> ProcAlive(pr, fsv[id].pid.val), raised |-> FALSE,
          error |-> FALSE]

\* Variant: a status check without the outer except clause.
StatusUncaught(id, fsv, pr) == StatusTry(id, fsv, pr)

\* except Exception as e: return {'status': False, 'error': str(e)}
check_django_deployment_status(id, fsv, pr) ==
    LET r == StatusTry(id, fsv, pr)
    IN  IF r.raised THEN [status |-> FALSE, raised |-> FALSE, error |-> TRUE]
        ELSE r

cleanup_django_deployment(id, fsv, pr, c) ==
    LET s == stop_django_project(id, fsv, pr)
    IN  IF DirExists(s.fs, id)
        THEN [fs |-> Rmtree(s.fs, id), procs |-> s.procs,
              cwd |-> CwdAfterRmtree(c, id), signalled |-> s.signalled]
        ELSE [fs |-> s.fs, procs |-> s.procs, cwd |-> c,
              signalled |-> s.signalled]

(***************************************************************************)
(* Process Launcher: utils.start_django_server_direct                      *)
(***************************************************************************)
\* Popen(manage.py runserver 127.0.0.1:<port> --noreload); write the pid and
\* port markers; sleep(5); process.poll().  The child is alive after the
\* grace period iff it could bind its port and did not crash (stays).
\* log is what the child has written to <id>.log by then; when the child is
\* gone the function passes it to logger.error and returns False.
start_django_server_direct(id, port, stays, fsv, pr, ext) ==
    LET pid == Len(pr) + 1
        up == port \notin BoundPorts(pr, ext) /\ stays
    IN  [fs |-> [fsv EXCEPT ![id].pid = PidMarker(pid),
                            ![id].port = PortMarker(port)],
         procs |-> Append(pr, [port |-> port, alive |-> up]),
         ok |-> up,
         log |-> IF up THEN "Starting development server"
                 ELSE IF port \in BoundPorts(pr, ext)
                 THEN "Error: That port is already in use."
                 ELSE "Traceback (most recent call last)"]

(***************************************************************************)
(* Pipeline: utils.deploy_django_project, utils.deploy_django_no_venv      *)
(***************************************************************************)
PipeFail(fsv, pr, c) ==
    [fs |-> fsv, procs |-> pr, cwd |-> c, ok |-> FALSE, port |-> 0,
     allocated |-> 0, portFree |-> FALSE, rangeFull |-> FALSE,
     spawned |-> FALSE, steps |-> <<>>, configured |-> FALSE,
     error |-> "", cause |-> "", raised |-> FALSE, log |-> ""]

\* Variant: a failed installation ends the pipeline.
InstallFatalWhenFailed(install_success) == ~install_success

\* if not install_success: logger.warning("... but continuing...")
InstallIsFatal(install_success) == FALSE

\* Variant: the pipeline goes on when the settings could not be rewritten.
ConfigureNotFatal(success) == FALSE

\* if not success: return False, None, "Failed to configure Django settings"
ConfigureIsFatal(success) == ~success

\* deploy_django_no_venv: allocate the port, install (install_success is
\* what install_project_requirements returned), rewrite the settings,
\* migrate (restores the working directory), launch.  steps names the steps
\* that were started, in order.
deploy_django_no_venv(id, kind, stays, install_success, fsv, pr, c, ext) ==
    LET bound == BoundPorts(pr, ext)
        available_port == find_available_port(BasePort, bound)
        obs == [PipeFail(fsv, pr, c) EXCEPT
                   !.allocated = available_port,
                   !.portFree = available_port \notin bound,
                   !.rangeFull = ProbeRange \subseteq bound,
                   !.steps = <<"extract", "detect", "port", "install">>]
        \* configure_django_settings_simple returns False when
        \* find_settings_file finds no settings.py
        success == kind # "nosettings"
    IN  IF InstallIsFatal(install_success)
        THEN [obs EXCEPT !.error = "Failed to install requirements"]
        ELSE IF ConfigureIsFatal(success)
        THEN [obs EXCEPT !.steps = @ \o <<"configure">>,
                         !.error = "Failed to configure Django settings"]
        ELSE LET s == start_django_server_direct(id, available_port, stays,
                                                 fsv, pr, ext)
             IN  [obs EXCEPT !.fs = s.fs, !.procs = s.procs, !.ok = s.ok,
                             !.spawned = TRUE, !.configured = success,
                             !.log = s.log,
                             !.steps = @ \o <<"configure", "migrate", "launch">>,
                             !.error = IF s.ok THEN ""
                                       ELSE "Failed to start Django server",
                             !.port = IF s.ok THEN available_port ELSE 0]

\* detect_django_structure on the extracted tree: is_django is set where
\* manage.py is found; settings_module is looked for afterwards and stays
\* None when no folder next to manage.py holds a settings.py.
detect_django_structure(kind) ==
    [is_django |-> kind \in {"good", "nosettings"},
     manage_py_path |-> kind \in {"good", "nosettings"},
     settings_module |-> kind = "good"]

\* The try block of deploy_django_project(username, project_name,
\* uploaded_file_path): file is the artifact extracted, kind what it turns
\* out to be.  zipfile.ZipFile raises on a file that is not a zip.
DeployTry(project_name, file, kind, stays, install_success, fsv, pr, c, ext) ==
    LET id == ProjectFolderOf(project_name)
        stopped == stop_django_project(id, fsv, pr)
        fs1 == IF DirExists(fsv, id) THEN Rmtree(stopped.fs, id) ELSE fsv
        pr1 == IF DirExists(fsv, id) THEN stopped.procs ELSE pr
        c1 == IF DirExists(fsv, id) THEN CwdAfterRmtree(c, id) ELSE c
        made == [fs1 EXCEPT ![id] = EmptyDir]
    IN  IF kind = "badzip"
        THEN [PipeFail(made, pr1, c1) EXCEPT
                 !.steps = <<"extract">>, !.raised = TRUE,
                 !.cause = "File is not a zip file"]
        ELSE LET extracted == [made EXCEPT ![id].code = file]
             IN  IF ~detect_django_structure(kind).is_django
                 THEN [PipeFail(extracted, pr1, c1) EXCEPT
                          !.steps = <<"extract", "detect">>,
                          !.error = "Not a valid Django project"]
                 ELSE deploy_django_no_venv(id, kind, stays, install_success,
                                            extracted, pr1, c1, ext)

\* Variant: deploy_django_project without its except clause.
DeployUncaught(project_name, file, kind, stays, install_success, fsv, pr, c, ext) ==
    DeployTry(project_name, file, kind, stays, install_success, fsv, pr, c, ext)

\* except Exception as e: return {'success': False, 'error': str(e)}
deploy_django_project(project_name, file, kind, stays, install_success, fsv, pr, c, ext) ==
    LET r == DeployTry(project_name, file, kind, stays, install_success,
                       fsv, pr, c, ext)
    IN  IF r.raised THEN [r EXCEPT !.raised = FALSE, !.error = r.cause] ELSE r

(***************************************************************************)
(* Initial state: no deployment rows, no artifacts, no directories, no     *)
(* processes; the orchestrator sits in its start directory.                *)
(***************************************************************************)
Init ==
    /\ records = [s \in Slots |-> NoRec]
    /\ files = {}
    /\ uploads = 0
    /\ fs = [id \in FolderIds |-> NoDir]
    /\ procs = <<>>
    /\ extBound = {}
    /\ cwd = Home
    /\ upd = Idle
    /\ last = LastNone
    /\ nm = NoName
    /\ conf = NoConf
    /\ arch = NoArch
    /\ deps = NoDeps
    /\ mig = NoMig
    /\ race = NoRace

FreeSlots == {s \in Slots : ~records[s].present}
\* FileSystemStorage.save: the new artifact gets a path of its own
NewFile == uploads + 1
Lowest(S) == CHOOSE x \in S : \A y \in S : x <= y

\* No request handler is running (requests are served one at a time).
Serving == upd.pc = "idle"

(***************************************************************************)
(* views.deploy_django_view (POST, valid form)                             *)
(***************************************************************************)
\* Lines 107-130: the row is saved with the model's default status.
DeployCreate(input, uid) ==
    /\ Serving
    /\ FormAccepts(input)
    /\ FreeSlots # {}
    /\ uploads < MaxUploads
    /\ LET slot == Lowest(FreeSlots)
           f == NewFile
       IN  /\ records' = [records EXCEPT ![slot] =
                  [NoRec EXCEPT !.present = TRUE, !.name = FormCleanName(input),
                                !.folder = SafeNameView(FormCleanName(input), uid),
                                !.file = f]]
           /\ files' = files \cup {f}
           /\ uploads' = f
           /\ upd' = [Idle EXCEPT !.pc = "created", !.slot = slot]
    /\ UNCHANGED <<fs, procs, extBound, cwd, last, stepVars>>

\* Lines 142-145: project_folder and the status while the pipeline runs.
DeployStart ==
    /\ upd.pc = "created"
    /\ records' = [records EXCEPT ![upd.slot].status = "deploying"]
    /\ upd' = [upd EXCEPT !.pc = "deploying"]
    /\ UNCHANGED <<files, uploads, fs, procs, extBound, cwd, last, stepVars>>

\* Lines 148-212: the pipeline and the status it leaves.
DeployRun(kind, stays, install_success) ==
    /\ upd.pc = "deploying"
    /\ LET slot == upd.slot
           row == records[slot]
           r == deploy_django_project(row.folder, row.file, kind, stays,
                                      install_success, fs, procs, cwd, extBound)
       IN  /\ records' = [records EXCEPT ![slot] =
                  [row EXCEPT !.status = IF r.ok /\ ~r.raised THEN "deployed"
                                         ELSE "failed",
                              !.active = r.ok /\ ~r.raised,
                              !.domain = IF r.raised THEN 0 ELSE r.port]]
           /\ fs' = r.fs
           /\ procs' = r.procs
           /\ cwd' = r.cwd
           /\ last' = [LastNone EXCEPT !.op = "deploy", !.slot = slot,
                          !.ok = r.ok, !.port = r.allocated,
                          !.portFree = r.portFree, !.rangeFull = r.rangeFull,
                          !.spawned = r.spawned, !.steps = r.steps,
                          !.configured = r.configured,
                          !.installed = install_success, !.address = r.port,
                          !.error = r.error, !.cause = r.cause,
                          !.raised = r.raised, !.log = r.log,
                          !.kind = kind]
    /\ upd' = Idle
    /\ UNCHANGED <<files, uploads, extBound, stepVars>>

(***************************************************************************)
(* views.delete_django_project and models.DjangoProject.delete             *)
(***************************************************************************)
DeleteDjango(slot) ==
    /\ Serving
    /\ records[slot].present
    /\ LET row == records[slot]
           safe_name == SafeNameRaw(row.name)
           c == cleanup_django_deployment(safe_name, fs, procs, cwd)
           own == DirExists(c.fs, row.folder)
       IN  /\ fs' = IF own THEN Rmtree(c.fs, row.folder) ELSE c.fs
           /\ cwd' = IF own THEN CwdAfterRmtree(c.cwd, row.folder) ELSE c.cwd
           /\ procs' = c.procs
           /\ files' = files \ {row.file}
           /\ records' = [records EXCEPT ![slot] = NoRec]
           /\ last' = [LastNone EXCEPT !.op = "delete"]
    /\ UNCHANGED <<uploads, extBound, upd, stepVars>>

(***************************************************************************)
(* views.django_projects_view (the second definition, which is the one     *)
(* the module ends up with)                                                *)
(***************************************************************************)
\* Variant: a row whose process is gone is marked error but stays active.
ListedRowStaysActive(row) ==
    IF ~row.present \/ row.domain = 0 \/ row.status = "failed" THEN row
    ELSE LET status == check_django_deployment_status(SafeNameRaw(row.name),
                                                      fs, procs)
         IN  IF status.status /\ ~row.active
             THEN [row EXCEPT !.active = TRUE, !.status = "deployed"]
             ELSE IF ~status.status /\ row.active
             THEN [row EXCEPT !.status = "error"]
             ELSE row

ListedRow(row) ==
    IF ~row.present \/ row.domain = 0 \/ row.status = "failed" THEN row
    ELSE LET status == check_django_deployment_status(SafeNameRaw(row.name),
                                                      fs, procs)
         IN  IF status.status /\ ~row.active
             THEN [row EXCEPT !.active = TRUE, !.status = "deployed"]
             ELSE IF ~status.status /\ row.active
             THEN [row EXCEPT !.active = FALSE, !.status = "error"]
             ELSE row

ListProjects ==
    /\ Serving
    /\ records' = [s \in Slots |-> ListedRow(records[s])]
    /\ last' = [LastNone EXCEPT !.op = "list"]
    /\ UNCHANGED <<files, uploads, fs, procs, extBound, cwd, upd, stepVars>>

(***************************************************************************)
(* Shelling out to docker-compose from a project folder:                   *)
(*     original_dir = os.getcwd(); os.chdir(folder); subprocess.run(...)   *)
(* subprocess.run raises TimeoutExpired on a timeout and OSError when the  *)
(* command cannot be started; a non-zero exit does not raise.              *)
(***************************************************************************)
CmdRaises(cmd) == cmd \in {"timeout", "oserror"}

(***************************************************************************)
(* views.toggle_django_project_status (POST)                               *)
(***************************************************************************)
\* Variant: activation that does not look at the command's exit code.
ActivateIgnoresExit(row, cmd, c) ==
    IF ~DirExists(fs, row.folder) \/ GetcwdRaises(c) \/ CmdRaises(cmd)
    THEN [row EXCEPT !.status = "failed", !.active = FALSE]
    ELSE [row EXCEPT !.status = "deployed", !.active = TRUE]

\* new_status = True: docker-compose up -d
Activate(row, cmd, c) ==
    IF ~DirExists(fs, row.folder) \/ GetcwdRaises(c) \/ cmd # "ok"
    THEN [row EXCEPT !.status = "failed", !.active = FALSE]
    ELSE [row EXCEPT !.status = "deployed", !.active = TRUE]

\* new_status = False: docker-compose down
Deactivate(row, cmd, c) ==
    IF ~DirExists(fs, row.folder) THEN [row EXCEPT !.status = "stopped", !.active = FALSE]
    ELSE IF GetcwdRaises(c) \/ CmdRaises(cmd) THEN [row EXCEPT !.active = FALSE]
    ELSE [row EXCEPT !.status = "stopped", !.active = FALSE]

\* Variant: a toggle whose exception handlers do not change back.
ToggleCwdLeaks(row, cmd, c) ==
    IF ~DirExists(fs, row.folder) \/ GetcwdRaises(c) THEN c
    ELSE IF CmdRaises(cmd) THEN row.folder ELSE c

\* The working directory when the toggle returns: os.getcwd and os.chdir are
\* reached only when the folder exists; after the command, and in the
\* handlers of TimeoutExpired and Exception, os.chdir(original_dir).
ToggleCwd(row, cmd, c) ==
    IF ~DirExists(fs, row.folder) \/ GetcwdRaises(c) THEN c
    ELSE LET original_dir == c
         IN  original_dir

ToggleStatus(slot, new_status, cmd) ==
    /\ Serving
    /\ records[slot].present
    /\ records' = [records EXCEPT ![slot] =
            IF new_status THEN Activate(@, cmd, cwd) ELSE Deactivate(@, cmd, cwd)]
    /\ cwd' = ToggleCwd(records[slot], cmd, cwd)
    /\ last' = [LastNone EXCEPT !.op = "toggle", !.slot = slot, !.cmd = cmd,
                   !.activate = new_status]
    /\ UNCHANGED <<files, uploads, fs, procs, extBound, upd, stepVars>>

(***************************************************************************)
(* views.restart_django_project (the second definition)                    *)
(***************************************************************************)
Restarted(row, cmd, c) ==
    IF ~DirExists(fs, row.folder) THEN [row EXCEPT !.status = "failed"]
    ELSE IF GetcwdRaises(c) THEN [row EXCEPT !.status = "restarting"]
    ELSE IF cmd = "ok" THEN [row EXCEPT !.status = "deployed"]
    ELSE [row EXCEPT !.status = "error"]

RestartDjango(slot, cmd) ==
    /\ Serving
    /\ records[slot].present
    /\ records' = [records EXCEPT ![slot] = Restarted(@, cmd, cwd)]
    /\ last' = [LastNone EXCEPT !.op = "restart"]
    \* finally: os.chdir(original_dir)
    /\ UNCHANGED <<files, uploads, fs, procs, extBound, cwd, upd, stepVars>>

(***************************************************************************)
(* views.update_django_project (POST with a .zip file), in the steps       *)
(* snapshot+replace, stop, redeploy, commit or restore                     *)
(***************************************************************************)
\* shutil.copytree(project.project_folder, backup_folder)
TakeBackup(fsv, folder) == IF DirExists(fsv, folder) THEN fsv[folder] ELSE NoDir

\* Variant: the restore leaves the failed deployment's directory in place.
MoveBackupSkipped(fsv, folder, backup) == fsv

\* shutil.rmtree(project.project_folder); shutil.move(backup_folder, folder)
MoveBackup(fsv, folder, backup) == [fsv EXCEPT ![folder] = backup]

\* Variant: the commit leaves the backup directory on disk.
RmtreeBackupSkipped(backup) == backup

\* shutil.rmtree(backup_folder): what is left at the backup path
RmtreeBackup(backup) == NoDir

\* os.remove(old_file_path)
RemoveOldFile(stored, old) == stored \ {old}

\* Lines 712-728: copy the working directory to the timestamped backup
\* path, then store the new artifact as the row's project_file.
UpdateBegin(slot, kind) ==
    /\ Serving
    /\ records[slot].present
    /\ uploads < MaxUploads
    /\ LET row == records[slot]
           f == NewFile
           backup == TakeBackup(fs, row.folder)
       IN  /\ upd' = [pc |-> "stop", slot |-> slot, backup |-> backup,
                      snapshot |-> backup, oldFile |-> row.file,
                      kind |-> kind, status0 |-> row.status, ok |-> FALSE]
           /\ files' = files \cup {f}
           /\ uploads' = f
           /\ records' = [records EXCEPT ![slot].file = f]
           /\ last' = [LastNone EXCEPT !.op = "updating", !.slot = slot]
    /\ UNCHANGED <<fs, procs, extBound, cwd, stepVars>>

\* Lines 730-738: docker-compose down from the project folder; a bare
\* except swallows whatever is raised, before the chdir back.
UpdateStopOld(cmd) ==
    /\ upd.pc = "stop"
    /\ LET row == records[upd.slot]
       IN  cwd' = IF DirExists(fs, row.folder) /\ ~GetcwdRaises(cwd) /\ CmdRaises(cmd)
                  THEN row.folder ELSE cwd
    /\ upd' = [upd EXCEPT !.pc = "redeploy"]
    /\ UNCHANGED <<records, files, uploads, fs, procs, extBound, last, stepVars>>

\* Lines 740-746: the pipeline on the new artifact.
UpdateRedeploy(stays, install_success) ==
    /\ upd.pc = "redeploy"
    /\ LET row == records[upd.slot]
           safe_name == SafeNameRaw(row.name)
           r == deploy_django_project(safe_name, row.file, upd.kind, stays,
                                      install_success, fs, procs, cwd, extBound)
       IN  /\ fs' = r.fs
           /\ procs' = r.procs
           /\ cwd' = r.cwd
           /\ upd' = [upd EXCEPT !.pc = "finish", !.ok = r.ok /\ ~r.raised]
           /\ last' = [LastNone EXCEPT !.op = "redeploy", !.slot = upd.slot,
                          !.ok = r.ok, !.port = r.allocated,
                          !.portFree = r.portFree, !.rangeFull = r.rangeFull,
                          !.spawned = r.spawned, !.steps = r.steps,
                          !.configured = r.configured,
                          !.installed = install_success, !.address = r.port,
                          !.error = r.error, !.cause = r.cause,
                          !.raised = r.raised, !.log = r.log,
                          !.kind = upd.kind]
    /\ UNCHANGED <<records, files, uploads, extBound, stepVars>>

\* Lines 748-772: commit.
UpdateCommit ==
    /\ upd.pc = "finish"
    /\ upd.ok
    /\ records' = [records EXCEPT ![upd.slot].status = "deployed",
                                  ![upd.slot].active = TRUE]
    /\ files' = RemoveOldFile(files, upd.oldFile)
    /\ last' = [LastNone EXCEPT !.op = "update", !.slot = upd.slot, !.ok = TRUE,
                   !.snapshot = upd.snapshot, !.oldFile = upd.oldFile,
                   !.status0 = upd.status0]
    /\ upd' = [Idle EXCEPT !.backup = RmtreeBackup(upd.backup)]
    /\ UNCHANGED <<uploads, fs, procs, extBound, cwd, stepVars>>

\* Lines 773-801: restore.  The backup is moved back, docker-compose up -d
\* is run from the restored folder, and the row is marked deployed when
\* nothing raised.
RestoreRaises(c, cmd) == GetcwdRaises(c) \/ CmdRaises(cmd)

UpdateRestore(cmd) ==
    /\ upd.pc = "finish"
    /\ ~upd.ok
    /\ LET row == records[upd.slot]
           had == upd.backup.exists
           c1 == IF had /\ DirExists(fs, row.folder)
                 THEN CwdAfterRmtree(cwd, row.folder) ELSE cwd
           up == had /\ ~RestoreRaises(c1, cmd)
       IN  /\ fs' = IF had THEN MoveBackup(fs, row.folder, upd.backup) ELSE fs
           /\ cwd' = IF had /\ ~GetcwdRaises(c1) /\ CmdRaises(cmd)
                     THEN row.folder ELSE c1
           /\ records' = [records EXCEPT
                  ![upd.slot].status = IF up THEN "deployed" ELSE "failed",
                  ![upd.slot].active = up]
           /\ last' = [LastNone EXCEPT !.op = "update", !.slot = upd.slot,
                          !.ok = FALSE, !.cmd = IF had THEN cmd ELSE "none",
                          !.snapshot = upd.snapshot, !.oldFile = upd.oldFile,
                   !.status0 = upd.status0]
    \* the backup path is empty once the backup was moved; there was none otherwise
    /\ upd' = Idle
    /\ UNCHANGED <<files, uploads, procs, extBound, stepVars>>

(***************************************************************************)
(* The environment: a server process exits on its own; foreign listeners   *)
(* take or release ports of the probe range.                               *)
(***************************************************************************)
ProcExit(pid) ==
    /\ ProcAlive(procs, pid)
    /\ procs' = [procs EXCEPT ![pid].alive = FALSE]
    /\ UNCHANGED <<records, files, uploads, fs, extBound, cwd, upd, last, stepVars>>

ForeignListeners == {{}, ProbeRange}

EnvListen(ports) ==
    /\ extBound # ports \ BoundPorts(procs, {})
    /\ extBound' = ports \ BoundPorts(procs, {})
    /\ UNCHANGED <<records, files, uploads, fs, procs, cwd, upd, last, stepVars>>

Next ==
    \/ \E input \in DeployNames, uid \in UuidHex : DeployCreate(input, uid)
    \/ DeployStart
    \/ \E kind \in DeployKinds, stays \in BOOLEAN, install_success \in BOOLEAN :
            DeployRun(kind, stays, install_success)
    \/ \E slot \in Slots : DeleteDjango(slot)
    \/ ListProjects
    \/ \E slot \in Slots, new_status \in BOOLEAN, cmd \in CmdOutcomes :
            ToggleStatus(slot, new_status, cmd)
    \/ \E slot \in Slots, cmd \in CmdOutcomes : RestartDjango(slot, cmd)
    \/ \E slot \in Slots, kind \in UpdateKinds : UpdateBegin(slot, kind)
    \/ \E cmd \in CmdOutcomes : UpdateStopOld(cmd)
    \/ \E stays \in BOOLEAN, install_success \in BOOLEAN :
            UpdateRedeploy(stays, install_success)
    \/ UpdateCommit
    \/ \E cmd \in CmdOutcomes : UpdateRestore(cmd)
    \/ \E pid \in 1..MaxUploads : ProcExit(pid)
    \/ \E ports \in ForeignListeners : EnvListen(ports)

Spec == Init /\ [][Next]_vars

(***************************************************************************)
(* The supervisor on its own: launch, stop, status check and cleanup of    *)
(* utils.py called in any order on working directories in any state the    *)
(* filesystem can be in (no directory, no marker, a marker that cannot be  *)
(* read or parsed, a marker naming a process that is gone).                *)
(***************************************************************************)
GarbageMarker == [state |-> "garbage", val |-> 0]
UnreadableMarker == [state |-> "unreadable", val |-> 0]
StaleMarker == PidMarker(MaxLaunches + 1)

SupDirs ==
    {NoDir} \cup
    {[EmptyDir EXCEPT !.pid = m] :
        m \in {NoMarker, GarbageMarker, UnreadableMarker, StaleMarker}}

InitSup ==
    /\ records = [s \in Slots |-> NoRec]
    /\ files = {}
    /\ uploads = 0
    /\ fs \in [FolderIds -> SupDirs]
    /\ procs = <<>>
    /\ extBound = {}
    /\ cwd = Home
    /\ upd = Idle
    /\ last = LastNone
    /\ nm = NoName
    /\ conf = NoConf
    /\ arch = NoArch
    /\ deps = NoDeps
    /\ mig = NoMig
    /\ race = NoRace

\* The deployment is running: its marker names a live process.
Running(id, fsv, pr) ==
    PidFileExists(fsv, id) /\ fsv[id].pid.state = "ok" /\ ProcAlive(pr, fsv[id].pid.val)

SupLaunch(id, stays) ==
    /\ DirExists(fs, id)
    /\ Len(procs) < MaxLaunches
    /\ LET port == find_available_port(BasePort, BoundPorts(procs, extBound))
           s == start_django_server_direct(id, port, stays, fs, procs, extBound)
       IN  /\ fs' = s.fs
           /\ procs' = s.procs
           /\ last' = [LastNone EXCEPT !.op = "launch", !.id = id, !.ok = s.ok,
                          !.port = port]
    /\ UNCHANGED <<records, files, uploads, extBound, cwd, upd, stepVars>>

SupStop(id) ==
    /\ LET s == stop_django_project(id, fs, procs)
       IN  /\ fs' = s.fs
           /\ procs' = s.procs
           /\ last' = [LastNone EXCEPT !.op = "stop", !.id = id,
                          !.running = Running(id, fs, procs),
                          !.raised = s.raised]
    /\ UNCHANGED <<records, files, uploads, extBound, cwd, upd, stepVars>>

SupStatus(id) ==
    /\ LET r == check_django_deployment_status(id, fs, procs)
       IN  last' = [LastNone EXCEPT !.op = "status", !.id = id,
                       !.running = r.status, !.raised = r.raised,
                       !.afterStop = (last.op = "stop" /\ last.id = id
                                      /\ last.running)]
    /\ UNCHANGED <<records, files, uploads, fs, procs, extBound, cwd, upd, stepVars>>

SupCleanup(id) ==
    /\ LET c == cleanup_django_deployment(id, fs, procs, cwd)
       IN  /\ fs' = c.fs
           /\ procs' = c.procs
           /\ cwd' = c.cwd
           /\ last' = [LastNone EXCEPT !.op = "cleanup", !.id = id]
    /\ UNCHANGED <<records, files, uploads, extBound, upd, stepVars>>

NextSup ==
    \/ \E id \in FolderIds, stays \in BOOLEAN : SupLaunch(id, stays)
    \/ \E id \in FolderIds : SupStop(id)
    \/ \E id \in FolderIds : SupStatus(id)
    \/ \E id \in FolderIds : SupCleanup(id)
    \/ \E pid \in 1..MaxLaunches : ProcExit(pid)

SpecSup == InitSup /\ [][NextSup]_vars

(***************************************************************************)
(* Name derivation on its own: every name of up to MaxNameLen characters   *)
(* typed into the deploy form, and the identifiers derived from it.        *)
(***************************************************************************)
NameChars == {"a", Underscore, Hyphen, Blank}

TypedNames == UNION {[1..n -> NameChars] : n \in 1..MaxNameLen}

InitNames ==
    /\ records = [s \in Slots |-> NoRec]
    /\ files = {}
    /\ uploads = 0
    /\ fs = [id \in FolderIds |-> NoDir]
    /\ procs = <<>>
    /\ extBound = {}
    /\ cwd = Home
    /\ upd = Idle
    /\ last = LastNone
    /\ nm \in {[NoName EXCEPT !.input = n] : n \in TypedNames}
    /\ conf = NoConf
    /\ arch = NoArch
    /\ deps = NoDeps
    /\ mig = NoMig
    /\ race = NoRace

\* The form rejects the name: nothing is derived.
RejectName ==
    /\ ~nm.submitted
    /\ ~FormAccepts(nm.input)
    /\ nm' = [nm EXCEPT !.submitted = TRUE]
    /\ UNCHANGED <<sysVars, conf, arch, deps, mig, race>>

\* deploy_django_view lines 110-142 and deploy_django_project lines 31-33
DeriveName(uid) ==
    /\ ~nm.submitted
    /\ FormAccepts(nm.input)
    /\ LET project_name == FormCleanName(nm.input)
           safe_name == SafeNameView(project_name, uid)
       IN  nm' = [nm EXCEPT !.submitted = TRUE, !.accepted = TRUE,
                     !.safe = safe_name,
                     !.folder = ProjectFolderOf(safe_name),
                     !.later = SafeNameRaw(project_name)]
    /\ UNCHANGED <<sysVars, conf, arch, deps, mig, race>>

NextNames ==
    \/ RejectName
    \/ \E uid \in UuidHex : DeriveName(uid)

SpecNames == InitNames /\ [][NextNames]_vars

(***************************************************************************)
(* Configuration rewriter (utils.py 356-616).  A settings file is a        *)
(* sequence of lines, content.split('\n'); a line is a sequence of tokens. *)
(* Indentation is left out: every test the rewriter makes on a line either *)
(* strips it first or searches the whole line.                             *)
(***************************************************************************)
HasToken(line, t) == \E i \in 1..Len(line) : line[i] = t

RECURSIVE CountToken(_, _)
\* line.count('{')
CountToken(line, t) ==
    IF line = <<>> THEN 0
    ELSE (IF Head(line) = t THEN 1 ELSE 0) + CountToken(Tail(line), t)

\* line.strip().startswith(t)
StartsWith(line, t) == line # <<>> /\ Head(line) = t

\* 'whitenoise' not in content.lower()
HasWhitenoise(content) ==
    \E i \in 1..Len(content) : HasToken(content[i], "whitenoise")

DbAssignLine == <<"DATABASES", "=", "{">>
DbComment == <<"#", "Modified", "DATABASES", "setting", "for", "SQLite">>

\* The seven lines the transform puts in the place of a DATABASES line.
DbReplacement(project_folder) ==
    << DbComment,
       DbAssignLine,
       <<"'default':", "{">>,
       <<"'ENGINE':", "sqlite3">>,
       <<"'NAME':", project_folder, "db.sqlite3">>,
       <<"}">>,
       <<"}">> >>

HostsLine(domain_name, port) ==
    <<"ALLOWED_HOSTS", "=", "[", "'localhost'", domain_name, port, "]">>

DebugLine == <<"DEBUG", "=", "True">>

MwAssignLine == <<"MIDDLEWARE", "=", "[">>

\* The eleven lines the transform puts in the place of a MIDDLEWARE line.
MwReplacement ==
    << <<"#", "Modified", "MIDDLEWARE", "to", "include", "WhiteNoise">>,
       MwAssignLine,
       <<"SecurityMiddleware">>,
       <<"whitenoise">>,
       <<"SessionMiddleware">>,
       <<"CommonMiddleware">>,
       <<"CsrfViewMiddleware">>,
       <<"AuthenticationMiddleware">>,
       <<"MessageMiddleware">>,
       <<"XFrameOptionsMiddleware">>,
       <<"]">> >>

IsDbLine(line) ==
    HasToken(line, "DATABASES") /\ HasToken(line, "=") /\ ~StartsWith(line, "#")

IsHostsLine(line) == StartsWith(line, "ALLOWED_HOSTS")

IsDebugLine(line) == StartsWith(line, "DEBUG") /\ HasToken(line, "=")

IsMwLine(line, white) ==
    HasToken(line, "MIDDLEWARE") /\ HasToken(line, "=") /\ ~white
        /\ ~StartsWith(line, "#")

\* The body of the for loop of modify_existing_settings on one line: the
\* lines it appends to modified_lines (out) and the loop's two variables
\* afterwards.  white is 'whitenoise' in content.lower().
ModifyLine(line, skip_until_end, brace_count, white, folder, address) ==
    LET opens == CountToken(line, "{")
        closes == CountToken(line, "}")
    IN  IF skip_until_end
        THEN LET counted == brace_count + opens - closes
                 ends == closes > 0 /\ counted <= 0
             IN  [out |-> <<>>, skip_until_end |-> ~ends,
                  brace_count |-> IF ends THEN 0 ELSE counted]
        ELSE IF IsDbLine(line)
        THEN [out |-> DbReplacement(folder), skip_until_end |-> opens > 0,
              brace_count |-> IF opens > 0 THEN opens - closes ELSE brace_count]
        ELSE IF IsHostsLine(line)
        THEN [out |-> <<HostsLine(address[1], address[2])>>,
              skip_until_end |-> FALSE, brace_count |-> brace_count]
        ELSE IF IsDebugLine(line)
        THEN [out |-> <<DebugLine>>,
              skip_until_end |-> FALSE, brace_count |-> brace_count]
        ELSE IF IsMwLine(line, white)
        THEN [out |-> MwReplacement, skip_until_end |-> HasToken(line, "["),
              brace_count |-> IF HasToken(line, "[") THEN 1 ELSE brace_count]
        ELSE [out |-> <<line>>,
              skip_until_end |-> FALSE, brace_count |-> brace_count]

RECURSIVE ModifyLines(_, _, _, _, _, _)
\* The for loop of modify_existing_settings, line after line: the run over
\* lines is the run over their first half followed by the run over the
\* rest, which starts with the loop variables the first half left.
ModifyLines(lines, skip_until_end, brace_count, white, folder, address) ==
    IF lines = <<>>
    THEN [out |-> <<>>, skip_until_end |-> skip_until_end,
          brace_count |-> brace_count]
    ELSE IF Len(lines) = 1
    THEN ModifyLine(lines[1], skip_until_end, brace_count, white, folder, address)
    ELSE LET mid == Len(lines) \div 2
             first == ModifyLines(SubSeq(lines, 1, mid), skip_until_end,
                                  brace_count, white, folder, address)
             rest == ModifyLines(SubSeq(lines, mid + 1, Len(lines)),
                                 first.skip_until_end, first.brace_count,
                                 white, folder, address)
         IN  [out |-> first.out \o rest.out,
              skip_until_end |-> rest.skip_until_end,
              brace_count |-> rest.brace_count]

modify_existing_settings(content, project_folder, domain_name, port) ==
    ModifyLines(content, FALSE, 0, HasWhitenoise(content), project_folder,
                <<domain_name, port>>).out

\* '\n'.join(modified_lines) is the empty string
JoinsEmpty(lines) == lines = <<>> \/ lines = << <<>> >>

RECURSIVE LiftValue(_, _, _)
\* create_simple_settings: the value of the last line that starts with key
LiftValue(content, key, default) ==
    IF content = <<>> THEN default
    ELSE LET line == content[Len(content)]
         IN  IF StartsWith(line, key) /\ Len(line) >= 3 THEN line[3]
             ELSE LiftValue(SubSeq(content, 1, Len(content) - 1), key, default)

\* create_simple_settings: the replacement file, written from a template
\* that keeps the original's ROOT_URLCONF and WSGI_APPLICATION values.
create_simple_settings(original_content, project_folder, domain_name, port) ==
    << <<"#", "Modified", "settings", "for", "simple", "deployment">>,
       <<"SECRET_KEY", "=", project_folder>>,
       DebugLine,
       HostsLine(domain_name, port),
       <<"INSTALLED_APPS", "=", "[">>,
       <<"whitenoise">>,
       <<"]">>,
       MwAssignLine,
       <<"SecurityMiddleware">>,
       <<"whitenoise">>,
       <<"]">>,
       <<"ROOT_URLCONF", "=",
         LiftValue(original_content, "ROOT_URLCONF", "myproject.urls")>>,
       <<"TEMPLATES", "=", "[">>,
       <<"{">>,
       <<"'OPTIONS':", "{">>,
       <<"}", ",">>,
       <<"}", ",">>,
       <<"]">>,
       <<"WSGI_APPLICATION", "=",
         LiftValue(original_content, "WSGI_APPLICATION", "myproject.wsgi")>>,
       DbAssignLine,
       <<"'default':", "{">>,
       <<"'ENGINE':", "sqlite3">>,
       <<"'NAME':", project_folder, "db.sqlite3">>,
       <<"}">>,
       <<"}">>,
       <<"STATIC_URL", "=", "/static/">> >>

\* configure_django_settings_simple: what is written to the settings file
RewrittenSettings(content, project_folder, domain_name, port) ==
    LET modified_content ==
            modify_existing_settings(content, project_folder, domain_name, port)
    IN  IF JoinsEmpty(modified_content)
        THEN create_simple_settings(content, project_folder, domain_name, port)
        ELSE modified_content

\* Segments settings files are put together from.
SettingsSegments ==
    { << DbAssignLine, <<"'default':", "{">>, <<"'ENGINE':", "postgresql">>,
         <<"}">>, <<"}">> >>,
      << <<"DATABASES", "=", "{", "}">> >>,
      << <<"DATABASES", "[", "'default'", "]", "=", "db_url">> >>,
      << <<"ALLOWED_HOSTS", "=", "[", "]">> >>,
      << <<"DEBUG", "=", "False">> >>,
      << MwAssignLine, <<"SecurityMiddleware">>, <<"]">> >>,
      << MwAssignLine, <<"SecurityMiddleware">>, <<"whitenoise">>, <<"]">> >>,
      << <<"TEMPLATES", "=", "[">>, <<"{">>, <<"}", ",">>, <<"]">> >>,
      << <<"ROOT_URLCONF", "=", "p.urls">> >> }

MaxSegments == 3    \* segments of a settings file

RECURSIVE Flatten(_)
Flatten(segs) == IF segs = <<>> THEN <<>> ELSE Head(segs) \o Flatten(Tail(segs))

\* The settings files of the step-level specification; << <<>> >> is the
\* empty file, ''.split('\n').
SettingsFiles ==
    { << <<>> >> } \cup
    { Flatten(segs) :
        segs \in UNION {[1..n -> SettingsSegments] : n \in 1..MaxSegments} }

ConfFolder == "a_b"
ConfDomain == "user-a_b.localhost"
ConfPorts == {"8000", "8001"}

InitConf ==
    /\ records = [s \in Slots |-> NoRec]
    /\ files = {}
    /\ uploads = 0
    /\ fs = [id \in FolderIds |-> NoDir]
    /\ procs = <<>>
    /\ extBound = {}
    /\ cwd = Home
    /\ upd = Idle
    /\ last = LastNone
    /\ nm = NoName
    /\ conf \in {NoConf} \cup
                {[NoConf EXCEPT !.exists = TRUE, !.content = f, !.original = f] :
                    f \in SettingsFiles}
    /\ arch = NoArch
    /\ deps = NoDeps
    /\ mig = NoMig
    /\ race = NoRace

MaxRewrites == 2    \* rewrites of one settings file

\* configure_django_settings_simple(project_folder, django_info, domain, port)
ConfigureSettings(port) ==
    /\ conf.passes < MaxRewrites
    /\ conf' = IF ~conf.exists
               THEN [conf EXCEPT !.passes = @ + 1, !.ok = FALSE]
               ELSE [conf EXCEPT
                        !.passes = @ + 1, !.ok = TRUE, !.prev = conf.content,
                        !.content = RewrittenSettings(conf.content, ConfFolder,
                                                      ConfDomain, port)]
    /\ UNCHANGED <<sysVars, nm, arch, deps, mig, race>>

NextConf == \E port \in ConfPorts : ConfigureSettings(port)

SpecConf == InitConf /\ [][NextConf]_vars

(***************************************************************************)
(* Upload validation (forms.py 153-209).  A member path of the archive is  *)
(* a sequence of components, the last one the file's name.                 *)
(***************************************************************************)
MacFolder == "__MACOSX"

\* File names f.lower().endswith('manage.py') is true of
EndsWithManagePy == {"manage.py", "old_manage.py"}

\* Components 'settings.py' in f.lower() is true of
ContainsSettingsPy == {"settings.py", "settings.pyc"}

\* f.startswith('__MACOSX')
StartsWithMac(f) == f[1] = MacFolder

\* f.lower().endswith('manage.py')
PathEndsWithManagePy(f) == f[Len(f)] \in EndsWithManagePy

\* 'settings.py' in f.lower()
PathContainsSettingsPy(f) == \E i \in 1..Len(f) : f[i] \in ContainsSettingsPy

\* DjangoProjectForm.clean_project_file: the verdict on the uploaded file
clean_project_file(upload) ==
    IF ~upload.zipname THEN "not_zip"
    ELSE IF upload.oversize THEN "too_big"
    ELSE IF ~upload.wellformed THEN "malformed"
    ELSE LET file_list == upload.entries
             has_manage_py ==
                 \E f \in file_list : PathEndsWithManagePy(f) /\ ~StartsWithMac(f)
             has_settings ==
                 \E f \in file_list : PathContainsSettingsPy(f) /\ ~StartsWithMac(f)
         IN  IF ~has_manage_py THEN "no_manage"
             ELSE IF ~has_settings THEN "no_settings"
             ELSE "ok"

MaxDepth == 2       \* folders above a member of the archive
MaxEntries == 2     \* members of the archive

ArchFolders == {"proj", MacFolder}
ArchNames == {"manage.py", "old_manage.py", "settings.py", "views.py"}

ArchPaths ==
    { dirs \o <<name>> :
        dirs \in UNION {[1..n -> ArchFolders] : n \in 0..MaxDepth},
        name \in ArchNames }

RECURSIVE ArchEntrySets(_)
\* The sets of at most n member paths
ArchEntrySets(n) ==
    IF n = 0 THEN {{}}
    ELSE LET smaller == ArchEntrySets(n - 1)
         IN  smaller \cup {e \cup {f} : e \in smaller, f \in ArchPaths}

InitArch ==
    /\ records = [s \in Slots |-> NoRec]
    /\ files = {}
    /\ uploads = 0
    /\ fs = [id \in FolderIds |-> NoDir]
    /\ procs = <<>>
    /\ extBound = {}
    /\ cwd = Home
    /\ upd = Idle
    /\ last = LastNone
    /\ nm = NoName
    /\ conf = NoConf
    /\ arch \in [zipname : BOOLEAN, oversize : BOOLEAN, wellformed : BOOLEAN,
                 entries : ArchEntrySets(MaxEntries),
                 checked : {FALSE}, verdict : {"none"}]
    /\ deps = NoDeps
    /\ mig = NoMig
    /\ race = NoRace

\* form.is_valid() runs the validator once on the uploaded file
ValidateArchive ==
    /\ ~arch.checked
    /\ arch' = [arch EXCEPT !.checked = TRUE, !.verdict = clean_project_file(arch)]
    /\ UNCHANGED <<sysVars, nm, conf, deps, mig, race>>

NextArch == ValidateArchive

SpecArch == InitArch /\ [][NextArch]_vars

(***************************************************************************)
(* Dependency resolver (utils.py 110-354).  A manifest is a sequence of    *)
(* stripped lines; a line is a sequence of tokens.                         *)
(***************************************************************************)
DenyWords == {"psycopg", "mysql", "oracle", "pywin32"}

\* str.lower() on the tokens manifests are written with
Lower(t) == IF t = "MySQL" THEN "mysql" ELSE t

\* not req or req.startswith('#') or req.startswith('-')
IsSkippedLine(req) == req = <<>> \/ Head(req) \in {"#", "-"}

\* any(skip in req_lower for skip in [...])
IsDeniedLine(req) == \E i \in 1..Len(req) : Lower(req[i]) \in DenyWords

\* Variant: the filter drops comments, blanks and options only.
KeepsDeniedLines(req) == ~IsSkippedLine(req)

\* A line is kept unless it is skipped or holds a denylist word anywhere.
IsSafeRequirement(req) == ~IsSkippedLine(req) /\ ~IsDeniedLine(req)

\* Variant: the individual installs stop at the first one that fails.
InstallStopsAtFailure(d, bulk_outcome, failing) ==
    IF ~d.readable THEN [d EXCEPT !.result = FALSE]
    ELSE LET safe_requirements == SelectSeq(d.manifest, IsSafeRequirement)
             bad == failing \cap (1..Len(safe_requirements))
             stop == IF bad = {} THEN Len(safe_requirements)
                     ELSE CHOOSE i \in bad : \A j \in bad : i <= j
         IN  IF safe_requirements = <<>> THEN [d EXCEPT !.result = TRUE]
             ELSE IF bulk_outcome = "ok"
             THEN [d EXCEPT !.bulkTried = TRUE, !.bulk = safe_requirements,
                            !.bulkOutcome = bulk_outcome, !.result = TRUE]
             ELSE [d EXCEPT !.bulkTried = TRUE, !.bulk = safe_requirements,
                            !.bulkOutcome = bulk_outcome,
                            !.singles = SubSeq(safe_requirements, 1, stop),
                            !.failed = bad \cap (1..stop),
                            !.result = bad = {}]

\* install_from_requirements_file: failing is the set of positions of
\* safe_requirements whose individual install does not succeed.
install_from_requirements_file(d, bulk_outcome, failing) ==
    IF ~d.readable THEN [d EXCEPT !.result = FALSE]
    ELSE LET safe_requirements == SelectSeq(d.manifest, IsSafeRequirement)
         IN  IF safe_requirements = <<>> THEN [d EXCEPT !.result = TRUE]
             ELSE IF bulk_outcome = "ok"
             THEN [d EXCEPT !.bulkTried = TRUE, !.bulk = safe_requirements,
                            !.bulkOutcome = bulk_outcome, !.result = TRUE]
             ELSE [d EXCEPT !.bulkTried = TRUE, !.bulk = safe_requirements,
                            !.bulkOutcome = bulk_outcome,
                            !.singles = safe_requirements,
                            !.failed = failing \cap (1..Len(safe_requirements)),
                            !.result = TRUE]

\* install_from_import_analysis: the packages handed to the installer
AnalysedPackages(imports) ==
    {IF imp = "rest_framework" THEN "djangorestframework" ELSE imp :
        imp \in imports \ {"django", "os"}}

\* install_project_requirements(project_folder, python_cmd)
install_project_requirements(d, available, bulk_outcome, failing) ==
    LET d1 == [d EXCEPT !.ran = TRUE,
                        !.essentials = {"Django", "whitenoise"} \ available]
    IN  IF d.hasManifest
        THEN install_from_requirements_file(d1, bulk_outcome, failing)
        ELSE [d1 EXCEPT !.analysed = AnalysedPackages(d.imports),
                        !.result = TRUE]

MaxManifest == 3    \* lines of a manifest

ManifestLines ==
    { <<>>, <<"#", "mysql">>, <<"-", "r", "base.txt">>, <<"requests">>,
      <<"psycopg", "2">>, <<"MySQL", "client">> }

ImportNames == {"rest_framework", "django", "psycopg", "mylib"}

InitDeps ==
    /\ records = [s \in Slots |-> NoRec]
    /\ files = {}
    /\ uploads = 0
    /\ fs = [id \in FolderIds |-> NoDir]
    /\ procs = <<>>
    /\ extBound = {}
    /\ cwd = Home
    /\ upd = Idle
    /\ last = LastNone
    /\ nm = NoName
    /\ conf = NoConf
    /\ arch = NoArch
    /\ deps \in
          {[NoDeps EXCEPT !.hasManifest = TRUE, !.manifest = m, !.readable = r] :
              m \in UNION {[1..n -> ManifestLines] : n \in 0..MaxManifest},
              r \in BOOLEAN}
          \cup {[NoDeps EXCEPT !.imports = i] : i \in SUBSET ImportNames}
    /\ mig = NoMig
    /\ race = NoRace

InstallRequirements(available, bulk_outcome, failing) ==
    /\ ~deps.ran
    /\ deps' = install_project_requirements(deps, available, bulk_outcome, failing)
    /\ UNCHANGED <<sysVars, nm, conf, arch, mig, race>>

NextDeps ==
    \E available \in {{}, {"Django", "whitenoise"}}, bulk_outcome \in CmdOutcomes,
       failing \in SUBSET (1..MaxManifest) :
        InstallRequirements(available, bulk_outcome, failing)

SpecDeps == InitDeps /\ [][NextDeps]_vars

(***************************************************************************)
(* Migration Runner: utils.run_django_migrations_direct, statement by      *)
(* statement, for two pipeline runs of different deployments served by     *)
(* threads of the one orchestrator process.  The working directory is the  *)
(* process's: os.getcwd and os.chdir read and write the same cwd for both  *)
(* runs, and subprocess.run, called without cwd=, starts the command in    *)
(* whatever cwd is at that moment.                                         *)
(***************************************************************************)
Runs == {1, 2}

\* Outcome of one manage.py command (subprocess.run with a timeout).
MigOutcomes == {"ok", "nonzero", "timeout"}

\* One run: its position, project_root (the directory of its manage.py),
\* original_dir, the directories its commands were started in, the commands
\* it called, the directory it changed to on its way out, and whether it
\* has returned True.
MigStart(project_root) ==
    [pc |-> "getcwd", root |-> project_root, original_dir |-> <<>>,
     ran |-> <<>>, calls |-> <<>>, left |-> <<>>, result |-> FALSE]

InitMig ==
    /\ records = [s \in Slots |-> NoRec]
    /\ files = {}
    /\ uploads = 0
    /\ fs = [id \in FolderIds |-> NoDir]
    /\ procs = <<>>
    /\ extBound = {}
    /\ cwd = Home
    /\ upd = Idle
    /\ last = LastNone
    /\ nm = NoName
    /\ conf = NoConf
    /\ arch = NoArch
    /\ deps = NoDeps
    /\ \E a \in FolderIds : \E b \in FolderIds \ {a} :
            mig = [r \in Runs |-> MigStart(IF r = 1 THEN a ELSE b)]
    /\ race = NoRace

\* original_dir = os.getcwd()
MigGetcwd(r) ==
    /\ mig[r].pc = "getcwd"
    /\ mig' = [mig EXCEPT ![r].original_dir = cwd, ![r].pc = "chdir"]
    /\ UNCHANGED <<sysVars, nm, conf, arch, deps, race>>

\* os.chdir(project_root)
MigChdir(r) ==
    /\ mig[r].pc = "chdir"
    /\ cwd' = mig[r].root
    /\ mig' = [mig EXCEPT ![r].pc = "makemigrations"]
    /\ UNCHANGED <<records, files, uploads, fs, procs, extBound, upd, last,
                   nm, conf, arch, deps, race>>

\* Variant: a timeout leaves the runner without passing the finally clause.
MigAfterNoFinally(pc, outcome) ==
    IF outcome = "timeout" THEN "done"
    ELSE IF pc = "collectstatic" THEN "finally"
    ELSE IF pc = "makemigrations" THEN "migrate"
    ELSE "collectstatic"

\* The statement after a command: TimeoutExpired from makemigrations or
\* migrate leaves the try block for the finally clause; the one from
\* collectstatic is caught.
MigAfter(pc, outcome) ==
    IF pc = "collectstatic" \/ outcome = "timeout" THEN "finally"
    ELSE IF pc = "makemigrations" THEN "migrate"
    ELSE "collectstatic"

\* subprocess.run([python_cmd, 'manage.py', <command>], ...)
MigCommand(r, outcome) ==
    /\ mig[r].pc \in {"makemigrations", "migrate", "collectstatic"}
    /\ mig' = [mig EXCEPT ![r].ran = Append(@, cwd),
                          ![r].calls = Append(@, mig[r].pc),
                          ![r].pc = MigAfter(mig[r].pc, outcome),
                          ![r].result = mig[r].pc = "collectstatic"]
    /\ UNCHANGED <<sysVars, nm, conf, arch, deps, race>>

\* finally: os.chdir(original_dir)
MigFinally(r) ==
    /\ mig[r].pc = "finally"
    /\ cwd' = mig[r].original_dir
    /\ mig' = [mig EXCEPT ![r].pc = "done", ![r].left = mig[r].original_dir]
    /\ UNCHANGED <<records, files, uploads, fs, procs, extBound, upd, last,
                   nm, conf, arch, deps, race>>

NextMig ==
    \/ \E r \in Runs : MigGetcwd(r)
    \/ \E r \in Runs : MigChdir(r)
    \/ \E r \in Runs, outcome \in MigOutcomes : MigCommand(r, outcome)
    \/ \E r \in Runs : MigFinally(r)

SpecMig == InitMig /\ [][NextMig]_vars

(***************************************************************************)
(* Port allocation and launch of two pipeline runs for different           *)
(* deployments served by threads of the one orchestrator process:          *)
(* utils.deploy_django_no_venv calls find_available_port first and         *)
(* start_django_server_direct last, with the installation, the settings    *)
(* rewrite and the migrations in between.  find_available_port closes its  *)
(* socket before it returns, so the port is held by nobody until the       *)
(* child, some time after Popen, binds it; sleep(5) and process.poll()     *)
(* only tell whether the child has exited by then.                         *)
(***************************************************************************)
\* One run: its position, its folder, the port it was given, its child
\* process (none, starting, listening, exited) and what the launch returned.
RaceStart(id) ==
    [pc |-> "allocate", id |-> id, port |-> 0, child |-> "none", ok |-> FALSE]

\* Ports a listener holds: foreign ones and children that have bound theirs.
RaceBound ==
    extBound \cup {race[r].port : r \in {q \in Runs : race[q].child = "listening"}}

InitRace ==
    /\ records = [s \in Slots |-> NoRec]
    /\ files = {}
    /\ uploads = 0
    /\ fs = [id \in FolderIds |-> NoDir]
    /\ procs = <<>>
    /\ extBound \in ForeignListeners
    /\ cwd = Home
    /\ upd = Idle
    /\ last = LastNone
    /\ nm = NoName
    /\ conf = NoConf
    /\ arch = NoArch
    /\ deps = NoDeps
    /\ mig = NoMig
    /\ \E a \in FolderIds : \E b \in FolderIds \ {a} :
            race = [r \in Runs |-> RaceStart(IF r = 1 THEN a ELSE b)]

\* available_port = find_available_port(8000)
RaceAllocate(r) ==
    /\ race[r].pc = "allocate"
    /\ race' = [race EXCEPT ![r].port = find_available_port(BasePort, RaceBound),
                            ![r].pc = "spawn"]
    /\ UNCHANGED <<sysVars, nm, conf, arch, deps, mig>>

\* process = subprocess.Popen([... 'runserver', f'127.0.0.1:{port}', ...])
RaceSpawn(r) ==
    /\ race[r].pc = "spawn"
    /\ race' = [race EXCEPT ![r].child = "starting", ![r].pc = "sleep"]
    /\ UNCHANGED <<sysVars, nm, conf, arch, deps, mig>>

\* The child binds its port, or exits when the port is taken.
ChildBind(r) ==
    /\ race[r].child = "starting"
    /\ race' = [race EXCEPT ![r].child =
                    IF race[r].port \in RaceBound THEN "exited" ELSE "listening"]
    /\ UNCHANGED <<sysVars, nm, conf, arch, deps, mig>>

\* time.sleep(5); if process.poll() is None: return True
RacePoll(r) ==
    /\ race[r].pc = "sleep"
    /\ race' = [race EXCEPT ![r].ok = race[r].child # "exited", ![r].pc = "done"]
    /\ UNCHANGED <<sysVars, nm, conf, arch, deps, mig>>

NextRace ==
    \/ \E r \in Runs : RaceAllocate(r)
    \/ \E r \in Runs : RaceSpawn(r)
    \/ \E r \in Runs : ChildBind(r)
    \/ \E r \in Runs : RacePoll(r)

SpecRace == InitRace /\ [][NextRace]_vars

(***************************************************************************)
(* Properties.                                                             *)
(***************************************************************************)
Rows == {s \in Slots : records[s].present}

\* The last request to return was an update of a row that still exists.
UpdateReturned == last.op = "update" /\ records[last.slot].present

\* The update that just returned took the restore branch with a backup.
RestoreReturned == UpdateReturned /\ ~last.ok /\ last.snapshot.exists

\* C1: in every reachable state no row is `deployed` while its working
\* directory does not exist, and a restore whose restart did not come up
\* leaves the row `failed`.
C1_DeployedHasDirectory ==
    /\ \A s \in Rows :
          records[s].status = "deployed" => DirExists(fs, records[s].folder)
    /\ (RestoreReturned /\ last.cmd # "ok") => records[last.slot].status = "failed"

\* C2: after a restore, the row is `deployed` and active only if the group
\* restarted from the restored directory came up (docker-compose up -d
\* exited zero); otherwise it is `failed`.
C2_RestoredOnlyIfUp ==
    RestoreReturned =>
        IF last.cmd = "ok"
        THEN records[last.slot].status = "deployed" /\ records[last.slot].active
        ELSE records[last.slot].status = "failed" /\ ~records[last.slot].active

\* C3: when the update of a `deployed` row with working directory W fails
\* in the pipeline, W's content after the request equals the snapshot taken
\* before it, and the rejected new artifact is still the row's project_file
\* and still exists in storage.
C3_RestoredByteForByte ==
    (RestoreReturned /\ last.status0 = "deployed") =>
        /\ fs[records[last.slot].folder] = last.snapshot
        /\ records[last.slot].file # last.oldFile
        /\ records[last.slot].file \in files

\* A failed update of a deployed row whose server had been launched (its
\* snapshot holds a pid marker) has returned.
C3_Witness ==
    /\ RestoreReturned
    /\ last.status0 = "deployed"
    /\ last.snapshot.pid.state = "ok"
    /\ fs[records[last.slot].folder] = last.snapshot

\* C4: after an update whose pipeline succeeded the row is `deployed` and
\* active and neither the old artifact nor the backup directory exists; and
\* while the update is between its snapshot and its commit or restore, the
\* backup is still on disk as it was taken.
C4_CommitCleansUp ==
    /\ (UpdateReturned /\ last.ok) =>
          /\ records[last.slot].status = "deployed"
          /\ records[last.slot].active
          /\ last.oldFile \notin files
          /\ ~upd.backup.exists
    /\ upd.pc \in {"stop", "redeploy", "finish"} => upd.backup = upd.snapshot

\* A successful update that had a working directory to back up has returned.
C4_Witness == UpdateReturned /\ last.ok /\ last.snapshot.exists

\* C5: a status check that directly follows a stop of a running deployment
\* (same identifier, no launch in between) reports running = false.
C5_StopThenStatus ==
    (last.op = "status" /\ last.afterStop) => ~last.running

\* A status check has just followed the stop of a running deployment.
C5_Witness == last.op = "status" /\ last.afterStop

\* C6: a status check never raises; with no readable, well-formed pid marker
\* (no directory, no marker, unreadable or malformed marker) it returns
\* running = false.
C6_StatusNeverRaises ==
    last.op = "status" =>
        /\ ~last.raised
        /\ (~PidFileExists(fs, last.id) \/ fs[last.id].pid.state # "ok")
              => ~last.running

\* A status check of a directory whose marker is malformed has returned.
C6_Witness ==
    /\ last.op = "status"
    /\ PidFileExists(fs, last.id)
    /\ fs[last.id].pid.state = "garbage"

\* The last operation ran the pipeline far enough to call the allocator.
Allocated == last.op \in {"deploy", "redeploy"} /\ last.port # 0

\* C7: the port the allocator returns lies in [BasePort, BasePort + 100)
\* and was not bound by any listener at the probe.
C7_PortInRangeAndFree ==
    Allocated => last.port \in ProbeRange /\ last.portFree

\* C8: when every port of the probe range is bound, allocation fails closed:
\* the pipeline fails, no port is handed on and no server is spawned.
C8_FailsClosed ==
    (last.op \in {"deploy", "redeploy"} /\ last.rangeFull) =>
        ~last.ok /\ ~last.spawned /\ last.port = 0

IsSafeChar(c) == IsAlnum(c) \/ c = Underscore

\* C9: for every name the deploy form accepts, the identifier the working
\* directory is named by is at least 3 characters long and holds only
\* alphanumeric characters and underscores.
C9_SafeIdentifier ==
    nm.accepted =>
        /\ Len(nm.folder) >= 3
        /\ \A i \in 1..Len(nm.folder) : IsSafeChar(nm.folder[i])

\* An accepted name that cleans to fewer than 3 characters has been derived.
C9_Witness ==
    /\ nm.accepted
    /\ Len(Strip(CollapseUnderscores(SafeNameRaw(FormCleanName(nm.input))),
                 Underscore)) < 3

\* C10: no two rows of the owner that exist at the same time share a
\* working directory (identifier).
C10_DistinctIdentifiers ==
    \A s, t \in Rows : s # t => records[s].folder # records[t].folder

\* The number of lines of a settings file that satisfy a test
CountLines(content, Test(_)) ==
    Cardinality({i \in 1..Len(content) : Test(content[i])})

\* C11: a rewrite of an already rewritten settings file yields a file with
\* exactly one database-settings block and exactly one allowed-hostnames
\* assignment (stated for originals that hold exactly one of each).
C11_RewriteTwiceOneBlock ==
    (/\ conf.passes = 2 /\ conf.ok
     /\ CountLines(conf.original, IsDbLine) = 1
     /\ CountLines(conf.original, IsHostsLine) = 1) =>
        /\ CountLines(conf.content, IsDbLine) = 1
        /\ CountLines(conf.content, IsHostsLine) = 1

\* The archive holds a file named exactly manage.py outside every
\* Mac-metadata folder.
HasEntryScript(entries) ==
    \E f \in entries :
        f[Len(f)] = "manage.py" /\ \A i \in 1..Len(f) : f[i] # MacFolder

\* The archive holds a path containing settings.py outside every
\* Mac-metadata folder.
HasConfigModule(entries) ==
    \E f \in entries :
        PathContainsSettingsPy(f) /\ \A i \in 1..Len(f) : f[i] # MacFolder

\* C12: for a well-formed archive the validator's verdict is ok exactly when
\* the archive holds an entry script and a configuration module, both
\* outside Mac-metadata folders; without the entry script the verdict is
\* missing-entry-script, with it but without the configuration module it is
\* missing-config-module.
C12_ValidatorVerdict ==
    (arch.checked /\ arch.zipname /\ ~arch.oversize /\ arch.wellformed) =>
        /\ arch.verdict = "ok" <=>
              HasEntryScript(arch.entries) /\ HasConfigModule(arch.entries)
        /\ ~HasEntryScript(arch.entries) => arch.verdict = "no_manage"
        /\ (HasEntryScript(arch.entries) /\ ~HasConfigModule(arch.entries))
              => arch.verdict = "no_settings"

\* Every line the installer was handed, in bulk or one by one
AttemptedLines ==
    {deps.bulk[i] : i \in 1..Len(deps.bulk)}
        \cup {deps.singles[i] : i \in 1..Len(deps.singles)}

\* The lines of the manifest that name a package outside the denylist
WantedLines ==
    {deps.manifest[i] : i \in
        {j \in 1..Len(deps.manifest) :
            /\ deps.manifest[j] # <<>>
            /\ Head(deps.manifest[j]) \notin {"#", "-"}
            /\ \A k \in 1..Len(deps.manifest[j]) :
                  deps.manifest[j][k] \notin {"psycopg", "mysql", "MySQL",
                                              "oracle", "pywin32"}}}

\* C13: for every readable manifest, no denylisted line is handed to the
\* installer, in bulk or one by one, and every other line that is not a
\* comment, blank or an option is attempted.
C13_DenylistFiltered ==
    (deps.ran /\ deps.hasManifest /\ deps.readable) =>
        AttemptedLines = WantedLines

\* A manifest with a denylisted and a valid package went through the bulk
\* attempt and the individual installs.
C13_Witness ==
    /\ deps.ran /\ deps.hasManifest /\ deps.readable
    /\ deps.manifest = << <<"psycopg", "2">>, <<"requests">> >>
    /\ deps.bulk = << <<"requests">> >>
    /\ deps.singles = << <<"requests">> >>


HasStep(step) == \E i \in DOMAIN last.steps : last.steps[i] = step

\* C14: dependency resolution never ends a pipeline run: whatever the
\* installation returned, a run that reached it goes on to the settings
\* rewrite and, when the rewrite succeeded, reaches the migration step.
C14_InstallNeverAborts ==
    (last.op \in {"deploy", "redeploy"} /\ HasStep("install")) =>
        /\ HasStep("configure")
        /\ last.configured => HasStep("migrate")

C14_Witness ==
    last.op = "deploy" /\ ~last.installed /\ last.configured /\ HasStep("migrate")

StatusChoices ==
    {"pending", "building", "deployed", "failed", "stopped", "restarting", "error"}

\* C16: a deployment row is created pending, is building while the pipeline
\* runs, is deployed or failed once it completed, and its status is always
\* one of pending, building, deployed, failed, stopped, restarting, error.
C16_StatusLifecycle ==
    /\ \A s \in Rows : records[s].status \in StatusChoices
    /\ upd.pc = "created" => records[upd.slot].status = "pending"
    /\ upd.pc = "deploying" => records[upd.slot].status = "building"
    /\ (last.op = "deploy" /\ Serving /\ records[last.slot].present) =>
           records[last.slot].status \in {"deployed", "failed", "stopped",
                                          "restarting", "error"}


\* The listing runs the liveness check for row s and the check reports the
\* process gone.
FoundGone(s) ==
    /\ records[s].present /\ records[s].domain # 0
    /\ records[s].status # "failed"
    /\ ~check_django_deployment_status(SafeNameRaw(records[s].name),
                                       fs, procs).status

OwnServer(s) ==
    {pid \in 1..Len(procs) :
        /\ PidFileExists(fs, records[s].folder)
        /\ fs[records[s].folder].pid.state = "ok"
        /\ fs[records[s].folder].pid.val = pid
        /\ ProcAlive(procs, pid)}

\* C18: when a delete has completed, whatever the project name, the server
\* process launched for the row has been terminated, the row's working
\* directory does not exist and the row is gone.
C18_DeleteCleansUp ==
    [][\A s \in Slots : DeleteDjango(s) =>
          /\ \A pid \in OwnServer(s) : ~ProcAlive(procs', pid)
          /\ ~DirExists(fs', records[s].folder)
          /\ ~records'[s].present]_vars


\* A step of a request that changes into a project folder to run a command:
\* toggle, restart, and the stop and restore steps of update.
ChdirStep ==
    \/ \E slot \in Slots, new_status \in BOOLEAN, cmd \in CmdOutcomes :
            ToggleStatus(slot, new_status, cmd)
    \/ \E slot \in Slots, cmd \in CmdOutcomes : RestartDjango(slot, cmd)
    \/ \E cmd \in CmdOutcomes : UpdateStopOld(cmd)
    \/ \E cmd \in CmdOutcomes : UpdateRestore(cmd)

\* C19: every operation that changes the working directory has restored it
\* when it ends, on every exit path, exceptions and timeouts of the command
\* included.
C19_CwdRestored == [][ChdirStep => cwd' = cwd]_vars


\* C20: when the migration steps of two pipeline runs for different
\* deployments interleave, every command of a run is started in that run's
\* own entry-script directory, and once both runs are over the working
\* directory is what it was before either began.
C20_RunsIsolated ==
    /\ \A r \in DOMAIN mig : \A i \in DOMAIN mig[r].ran :
           mig[r].ran[i] = mig[r].root
    /\ (mig # NoMig /\ \A r \in DOMAIN mig : mig[r].pc = "done") => cwd = Home

\* C21: stop never raises, and once it has returned the pid marker is absent,
\* also when the process the marker names was already gone (checked for
\* markers that can be read and parsed).
C21_StopRemovesMarker ==
    last.op = "stop" =>
        /\ ~last.raised
        /\ ~(PidFileExists(fs, last.id) /\ fs[last.id].pid.state = "ok")

\* C22: for every accepted project name, the identifier that status check,
\* stop, cleanup and delete derive from the stored name is the identifier of
\* the folder in which the launch wrote its pid and port markers.
C22_SameIdentifierLater ==
    nm.accepted => nm.later = nm.folder

\* A toggle of row last.slot has just returned; the row, its folder and the
\* working directory are as the toggle left them.
Toggled(new_status) == last.op = "toggle" /\ last.activate = new_status

\* The toggle that just returned got as far as running its command.
ToggleAttempted ==
    DirExists(fs, records[last.slot].folder) /\ ~GetcwdRaises(cwd)

\* C23: an activation whose command exits non-zero, times out or cannot be
\* started, or whose working directory is missing, leaves the row failed and
\* inactive; the row is deployed and active after an activation only when
\* the command exited zero.
C23_ActivationOutcome ==
    Toggled(TRUE) =>
        /\ (last.cmd # "ok" \/ ~DirExists(fs, records[last.slot].folder)) =>
               /\ records[last.slot].status = "failed"
               /\ ~records[last.slot].active
        /\ (records[last.slot].status = "deployed" /\ records[last.slot].active)
               => last.cmd = "ok"

C23_Witness ==
    /\ Toggled(TRUE) /\ ToggleAttempted /\ last.cmd = "nonzero"
    /\ records[last.slot].status = "failed"

\* C24: a deactivation that got as far as attempting the group-stop command
\* leaves the row stopped and inactive, whatever the command's outcome.
C24_DeactivationStops ==
    (Toggled(FALSE) /\ ToggleAttempted) =>
        /\ records[last.slot].status = "stopped"
        /\ ~records[last.slot].active

\* C25: both toggles leave the working directory as it was on entry, on
\* success, non-zero exit, timeout and any other exception.
C25_ToggleRestoresCwd ==
    [][(\E slot \in Slots, new_status \in BOOLEAN, cmd \in CmdOutcomes :
            ToggleStatus(slot, new_status, cmd)) => cwd' = cwd]_vars

C25_Witness ==
    /\ last.op = "toggle" /\ ToggleAttempted /\ last.cmd = "timeout"
    /\ cwd = Home

\* C26: a restart never leaves the row in restarting: when the restart
\* request has returned, the status is deployed, error or failed.
C26_RestartLeavesRestarting ==
    [][\A slot \in Slots, cmd \in CmdOutcomes :
          RestartDjango(slot, cmd) =>
              records'[slot].status \in {"deployed", "error", "failed"}]_vars

IsPrefix(s, t) == Len(s) <= Len(t) /\ \A i \in DOMAIN s : s[i] = t[i]

\* C27: the steps of one pipeline run start in the order extract, detect,
\* install, configure, migrate, port, launch: the port is allocated after
\* the migrations and directly before the launch.
C27_StepOrder ==
    last.op \in {"deploy", "redeploy"} =>
        IsPrefix(last.steps, <<"extract", "detect", "install", "configure",
                               "migrate", "port", "launch">>)

MigCalls == <<"makemigrations", "migrate", "collectstatic">>

\* C28: the migration runner makes its calls in the order makemigrations,
\* migrate, collectstatic, and on every way out, a call that timed out
\* included, it has changed back to the directory it found on entry.
C28_OrderAndRestore ==
    \A r \in DOMAIN mig :
        /\ IsPrefix(mig[r].calls, MigCalls)
        /\ mig[r].pc = "done" => mig[r].left = mig[r].original_dir

\* A run whose migrate call timed out has returned.
C28_Witness ==
    \E r \in DOMAIN mig :
        /\ mig[r].pc = "done" /\ ~mig[r].result
        /\ mig[r].calls = <<"makemigrations", "migrate">>
        /\ mig[r].left = Home

\* C29: no failure of a migration-runner call ends the runner: whether a
\* call exits non-zero or times out, the remaining calls are still made.
C29_RemainingCallsMade ==
    \A r \in DOMAIN mig : mig[r].pc = "done" => mig[r].calls = MigCalls

\* C30: when the spawned child is no longer alive after the grace period,
\* the pipeline returns a failure whose error detail is the tail of the
\* child's captured output (messages are whole texts here, so the detail
\* contains the tail when it is that text).
C30_FailureCarriesLog ==
    (last.op \in {"deploy", "redeploy"} /\ last.spawned /\ ~last.ok) =>
        /\ last.address = 0
        /\ last.error = last.log

IsMiddlewareAssign(line) == IsMwLine(line, FALSE)

\* The last rewrite succeeded on a file in which the in-place transform
\* finds neither a DATABASES assignment nor a MIDDLEWARE assignment.
RewroteWithoutBlocks ==
    /\ conf.passes >= 1 /\ conf.ok
    /\ CountLines(conf.prev, IsDbLine) = 0
    /\ CountLines(conf.prev, IsMiddlewareAssign) = 0

\* C31: when the in-place transform finds no database-settings block and no
\* middleware list in the file, what is written is the complete replacement
\* file, not the in-place result.
C31_FallbackWhenNoBlocks ==
    RewroteWithoutBlocks =>
        \E port \in ConfPorts :
            conf.content = create_simple_settings(conf.prev, ConfFolder,
                                                  ConfDomain, port)

IsUrlconfLine(line) == StartsWith(line, "ROOT_URLCONF")

\* C32: the in-place transform drops only the lines of a recognised block
\* and emits every other line unchanged: a ROOT_URLCONF line, which belongs
\* to no block, is in the output as often as in the input, also after a
\* single-line block or a list-bracketed block.
C32_OtherLinesKept ==
    (conf.passes >= 1 /\ conf.ok /\ ~JoinsEmpty(conf.prev)) =>
        CountLines(conf.content, IsUrlconfLine)
            = CountLines(conf.prev, IsUrlconfLine)

IsSqliteNameLine(line) ==
    StartsWith(line, "'NAME':") /\ HasToken(line, ConfFolder)
        /\ HasToken(line, "db.sqlite3")

IsAssignedHostsLine(line) ==
    IsHostsLine(line) /\ HasToken(line, ConfDomain)
        /\ \E port \in ConfPorts : HasToken(line, port)

IsDebugOnLine(line) == line = DebugLine

\* C33: whenever the rewrite reports success, the file written holds a
\* database block naming the deployment's db.sqlite3, an allowed-hosts
\* assignment with the assigned address, DEBUG = True and the whitenoise
\* middleware, whatever the original file was.
C33_RewrittenHoldsAll ==
    (conf.passes >= 1 /\ conf.ok) =>
        /\ CountLines(conf.content, IsDbLine) >= 1
        /\ CountLines(conf.content, IsSqliteNameLine) >= 1
        /\ CountLines(conf.content, IsAssignedHostsLine) >= 1
        /\ CountLines(conf.content, IsDebugOnLine) >= 1
        /\ HasWhitenoise(conf.content)

\* C34: when no settings file can be located for the rewrite, the pipeline
\* run is aborted: it returns a failure, no migration command is run and no
\* server process is spawned.
C34_NoConfigAborts ==
    (last.op \in {"deploy", "redeploy"} /\ HasStep("configure")
        /\ ~last.configured) =>
            /\ ~last.ok /\ last.address = 0
            /\ last.error = "Failed to configure Django settings"
            /\ ~HasStep("migrate") /\ ~HasStep("launch")
            /\ ~last.spawned

C34_Witness ==
    last.op = "deploy" /\ HasStep("configure") /\ ~last.configured /\ ~last.ok

\* The pipeline run that just returned got past extraction.
Detected == last.op \in {"deploy", "redeploy"} /\ HasStep("detect")

\* C35: the detector's flag is true only when both manage.py and a settings
\* module were found, and the run ends with the failure for a missing entry
\* script or configuration exactly when the flag is false.
C35_FlagNeedsBoth ==
    Detected =>
        LET django_info == detect_django_structure(last.kind)
        IN  /\ django_info.is_django =>
                   django_info.manage_py_path /\ django_info.settings_module
            /\ ~django_info.is_django
                   <=> last.error = "Not a valid Django project"

\* C36: import analysis is run only when the tree holds no manifest; with a
\* manifest one bulk install of the filtered list comes first, individual
\* installs are made only after the bulk install failed, and then every
\* line of the list is attempted, whichever individual installs fail.
C36_StrategyOrder ==
    deps.ran =>
        /\ deps.hasManifest => deps.analysed = {}
        /\ ~deps.hasManifest => ~deps.bulkTried /\ deps.singles = <<>>
        /\ (deps.hasManifest /\ deps.readable /\ WantedLines # {}) =>
               deps.bulkTried
        /\ deps.singles # <<>> => deps.bulkTried /\ deps.bulkOutcome # "ok"
        /\ (deps.bulkTried /\ deps.bulkOutcome # "ok") =>
               deps.singles = deps.bulk

\* The bulk install failed and so did the first individual install of two.
C36_Witness ==
    /\ deps.ran /\ deps.bulkTried /\ deps.bulkOutcome = "timeout"
    /\ Len(deps.singles) >= 2 /\ 1 \in deps.failed

\* C37: a row that was deactivated (status stopped, inactive) is still
\* stopped and inactive after a status listing: a status check alone never
\* moves it back to deployed.
C37_StoppedStaysStopped ==
    [][ListProjects =>
          \A s \in Slots :
              (records[s].present /\ records[s].status = "stopped"
                  /\ ~records[s].active) =>
                      /\ records'[s].status = "stopped"
                      /\ ~records'[s].active]_vars

\* C38: two pipeline runs for different deployments whose port allocation
\* and launch interleave never both return success with the same port.
C38_DistinctPorts ==
    \A r \in DOMAIN race : \A q \in DOMAIN race :
        (r # q /\ race[r].pc = "done" /\ race[q].pc = "done"
            /\ race[r].ok /\ race[q].ok) => race[r].port # race[q].port

====
